---------------------------- MODULE Spec2Model ----------------------------
(***************************************************************************)
(* Model of src/src/mqtt_dashboard/main.py (yeager/mqtt-dashboard): the    *)
(* wildcard matcher, the subscription registry (topic_widgets), message    *)
(* routing on the GLib main loop, and the connection session.              *)
(*                                                                         *)
(* Python strings are sequences of one-character strings, so that split,   *)
(* strip, float and slicing are computed the way the code computes them.   *)
(***************************************************************************)
EXTENDS Integers, Sequences, FiniteSets, TLC

(***************************************************************************)
(* Bounds of the model.                                                    *)
(***************************************************************************)
\* longest pattern / topic, in segments, given to the matcher
MaxSegs == 3
\* inbound messages the transport delivers in one run
MaxMsgs == 2
\* the clock readings are 0..MaxClock
MaxClock == 1
\* mqtt.Client() objects created in one run
MaxClients == 2
\* connections the broker or the network drops in one run
MaxDrops == 1
\* update calls made on a gauge alone
MaxGaugeUpdates == 3

\* str(payload)[:500], line 136
LabelMax == 500
\* SparklineWidget(max_points=50), line 26: the capacity of its deque
max_points == 50

(***************************************************************************)
(* Strings.                                                                *)
(***************************************************************************)
Slash == "/"
Plus == <<"+">>
Hash == <<"#">>

\* str.split(sep) for a one-character separator: always at least one segment
RECURSIVE split(_, _)
split(s, sep) ==
    IF \E i \in 1..Len(s) : s[i] = sep
    THEN LET i == CHOOSE k \in 1..Len(s) :
                      s[k] = sep /\ \A j \in 1..(k - 1) : s[j] # sep
         IN  <<SubSeq(s, 1, i - 1)>> \o split(SubSeq(s, i + 1, Len(s)), sep)
    ELSE <<s>>

(***************************************************************************)
(* MqttDashboardWindow._topic_matches                                      *)
(***************************************************************************)
\* mutant: the final length comparison is dropped (a pattern matches
\* every topic it is a prefix of)
RECURSIVE topic_matches_loop_prefix(_, _, _)
topic_matches_loop_prefix(pp, tp, i) ==
    IF i > Len(pp) THEN TRUE
    ELSE IF pp[i] = Hash THEN TRUE
    ELSE IF i > Len(tp) THEN FALSE
    ELSE IF pp[i] = Plus THEN topic_matches_loop_prefix(pp, tp, i + 1)
    ELSE IF pp[i] # tp[i] THEN FALSE
    ELSE topic_matches_loop_prefix(pp, tp, i + 1)

\* mutant: the end of the topic is tested before the "#" segment
RECURSIVE topic_matches_loop_hashlate(_, _, _)
topic_matches_loop_hashlate(pp, tp, i) ==
    IF i > Len(pp) THEN Len(pp) = Len(tp)
    ELSE IF i > Len(tp) THEN FALSE
    ELSE IF pp[i] = Hash THEN TRUE
    ELSE IF pp[i] = Plus THEN topic_matches_loop_hashlate(pp, tp, i + 1)
    ELSE IF pp[i] # tp[i] THEN FALSE
    ELSE topic_matches_loop_hashlate(pp, tp, i + 1)

\* the for loop of _topic_matches from (1-based) index i on, and the final
\* return; Python's index is i - 1, so "i >= len(tp)" reads i > Len(tp)
RECURSIVE topic_matches_loop(_, _, _)
topic_matches_loop(pp, tp, i) ==
    IF i > Len(pp) THEN Len(pp) = Len(tp)
    ELSE IF pp[i] = Hash THEN TRUE
    ELSE IF i > Len(tp) THEN FALSE
    ELSE IF pp[i] = Plus THEN topic_matches_loop(pp, tp, i + 1)
    ELSE IF pp[i] # tp[i] THEN FALSE
    ELSE topic_matches_loop(pp, tp, i + 1)

_topic_matches(pattern, topic) ==
    IF pattern = Hash THEN TRUE
    ELSE topic_matches_loop(split(pattern, Slash), split(topic, Slash), 1)

(***************************************************************************)
(* Inputs of the matcher: every string of 1..MaxSegs segments joined by    *)
(* "/", each segment empty, a literal, "+" or "#".                         *)
(***************************************************************************)
Segments == { <<>>, <<"a">>, <<"b">>, Plus, Hash }

RECURSIVE Join(_)
Join(segs) ==
    IF Len(segs) = 1 THEN segs[1]
    ELSE segs[1] \o <<Slash>> \o Join(Tail(segs))

MatcherInputs ==
    { Join(ss) : ss \in UNION { [1..n -> Segments] : n \in 1..MaxSegs } }

(***************************************************************************)
(* Python built-ins used by the widgets.                                   *)
(***************************************************************************)
Min(a, b) == IF a < b THEN a ELSE b
Max(a, b) == IF a > b THEN a ELSE b

Space == " "

\* str.strip(): leading and trailing white space removed
RECURSIVE lstrip(_)
lstrip(s) == IF s # <<>> /\ Head(s) = Space THEN lstrip(Tail(s)) ELSE s

RECURSIVE rstrip(_)
rstrip(s) ==
    IF s # <<>> /\ s[Len(s)] = Space THEN rstrip(SubSeq(s, 1, Len(s) - 1)) ELSE s

strip(s) == rstrip(lstrip(s))

Digits == {"0", "1", "2", "3", "4", "5", "6", "7", "8", "9"}

DigitVal(c) ==
    CASE c = "0" -> 0 [] c = "1" -> 1 [] c = "2" -> 2 [] c = "3" -> 3
      [] c = "4" -> 4 [] c = "5" -> 5 [] c = "6" -> 6 [] c = "7" -> 7
      [] c = "8" -> 8 [] c = "9" -> 9

RECURSIVE DecimalVal(_)
DecimalVal(ds) ==
    IF ds = <<>> THEN 0
    ELSE 10 * DecimalVal(SubSeq(ds, 1, Len(ds) - 1)) + DigitVal(ds[Len(ds)])

\* str(n) for a natural number n: its decimal text
RECURSIVE Numeral(_)
Numeral(n) ==
    IF n < 10 THEN <<SubSeq(<<"0", "1", "2", "3", "4", "5", "6", "7", "8", "9">>,
                            n + 1, n + 1)[1]>>
    ELSE Numeral(n \div 10) \o Numeral(n % 10)

\* float(val) over the characters the model's payloads are made of (digits,
\* sign, space, letters other than those of "inf" and "nan"; no ".", "e" or
\* "_"): white space is stripped, one sign is allowed, at least one digit
\* must follow and nothing else.  ok = FALSE stands for ValueError.
float(val) ==
    LET t == strip(val)
        signed == t # <<>> /\ Head(t) \in {"-", "+"}
        ds == IF signed THEN Tail(t) ELSE t
        ok == ds # <<>> /\ \A i \in 1..Len(ds) : ds[i] \in Digits
    IN  IF ok
        THEN [ok |-> TRUE,
              val |-> IF signed /\ Head(t) = "-" THEN 0 - DecimalVal(ds)
                      ELSE DecimalVal(ds)]
        ELSE [ok |-> FALSE, val |-> 0]

\* int(text.strip()) accepts the same strings over these characters
int(text) == float(text)

(***************************************************************************)
(* SparklineWidget, GaugeWidget, TopicWidget                               *)
(***************************************************************************)
\* mutant: a full deque drops the new entry instead of its oldest
deque_append_keep_old(values, x) ==
    IF Len(values) >= max_points THEN values
    ELSE Append(values, x)

\* deque(maxlen=max_points).append: the oldest entry leaves a full deque
deque_append(values, x) ==
    IF Len(values) >= max_points THEN Tail(values) \o <<x>>
    ELSE Append(values, x)

\* SparklineWidget.add_value: the new deque
add_value(values, val) ==
    IF float(val).ok THEN deque_append(values, float(val).val) ELSE values

\* mutant: the number is stored as it is
set_value_noclamp(value, val) ==
    IF float(val).ok THEN float(val).val ELSE value

\* mutant: a payload that is no number resets the gauge
set_value_reset(value, val) ==
    IF float(val).ok THEN Max(0, Min(100, float(val).val)) ELSE 0

\* GaugeWidget.set_value: the new value
set_value(value, val) ==
    IF float(val).ok THEN Max(0, Min(100, float(val).val)) ELSE value

types == <<"text", "gauge", "sparkline">>

Waiting == <<"W", "a", "i", "t", "i", "n", "g", ".", ".", ".">>
Dashes == <<"-", "-">>

\* TopicWidget.__init__.  gauge_value is self.gauge.value and spark_values is
\* self.sparkline.values; a widget of another kind has no such child and
\* keeps the initial value.  updates and fed are history variables: the
\* number of update calls, and the numbers parsed from their payloads.
TopicWidget(topic, widget_type) ==
    [topic |-> topic,
     widget_type |-> widget_type,
     value_label |-> IF widget_type \in {"gauge", "sparkline"} THEN Dashes
                     ELSE Waiting,
     ts_label |-> <<>>,
     gauge_value |-> 0,
     spark_values |-> <<>>,
     updates |-> 0,
     fed |-> <<>>]

\* mutant: a gauge or sparkline given a payload that is no number keeps its
\* labels too
update_untouched(w, payload, now) ==
    IF w.widget_type \in {"gauge", "sparkline"} /\ ~float(payload).ok
    THEN [w EXCEPT !.updates = @ + 1]
    ELSE [w EXCEPT
            !.value_label = SubSeq(payload, 1, Min(Len(payload), LabelMax)),
            !.ts_label = <<now>>,
            !.gauge_value = IF w.widget_type = "gauge"
                            THEN set_value(@, payload) ELSE @,
            !.spark_values = IF w.widget_type = "sparkline"
                             THEN add_value(@, payload) ELSE @,
            !.updates = @ + 1,
            !.fed = IF float(payload).ok THEN Append(@, float(payload).val)
                    ELSE @]

\* TopicWidget.update at clock reading now
update(w, payload, now) ==
    [w EXCEPT
        !.value_label = SubSeq(payload, 1, Min(Len(payload), LabelMax)),
        !.ts_label = <<now>>,
        !.gauge_value = IF w.widget_type = "gauge" THEN set_value(@, payload)
                        ELSE @,
        !.spark_values = IF w.widget_type = "sparkline"
                         THEN add_value(@, payload) ELSE @,
        !.updates = @ + 1,
        !.fed = IF float(payload).ok THEN Append(@, float(payload).val) ELSE @]

\* the keys of the dict topic_widgets, in insertion order
Keys(tw) == [i \in 1..Len(tw) |-> tw[i].topic]
KeySet(tw) == { tw[i].topic : i \in 1..Len(tw) }

\* mutant: a pattern added again gets a new widget in place of its old one
_add_topic_widget_replace(tw, topic, wtype) ==
    IF topic \in KeySet(tw)
    THEN [i \in 1..Len(tw) |->
             IF tw[i].topic = topic THEN TopicWidget(topic, wtype) ELSE tw[i]]
    ELSE Append(tw, TopicWidget(topic, wtype))

\* MqttDashboardWindow._add_topic_widget: the new topic_widgets
_add_topic_widget(tw, topic, wtype) ==
    IF topic \in KeySet(tw) THEN tw
    ELSE Append(tw, TopicWidget(topic, wtype))

(***************************************************************************)
(* CONFIG_FILE: what json.dump writes and json.load reads.  A document is  *)
(* a tree of objects (members in order), arrays, strings (their text as    *)
(* written, with escapes) and numbers (their digits).                      *)
(***************************************************************************)
Quote == "\""
Backslash == "\\"

\* the text json.dump writes between the quotes of a string
RECURSIVE json_escape(_)
json_escape(s) ==
    IF s = <<>> THEN <<>>
    ELSE (IF Head(s) \in {Quote, Backslash} THEN <<Backslash, Head(s)>>
          ELSE <<Head(s)>>) \o json_escape(Tail(s))

\* mutant: json.load leaves the text between the quotes as it is written
json_unescape_raw(s) == s

\* the string json.load makes of the text between the quotes
RECURSIVE json_unescape(_)
json_unescape(s) ==
    IF s = <<>> THEN <<>>
    ELSE IF Head(s) = Backslash /\ Len(s) >= 2
    THEN <<s[2]>> \o json_unescape(SubSeq(s, 3, Len(s)))
    ELSE <<Head(s)>> \o json_unescape(Tail(s))

JString(chars) == [t |-> "string", text |-> json_escape(chars)]
JNumber(n) == [t |-> "number", text |-> Numeral(n)]
JArray(items) == [t |-> "array", items |-> items]
JObject(members) == [t |-> "object", members |-> members]

\* dict lookups on a loaded object
HasKey(members, k) == \E i \in 1..Len(members) : members[i][1] = k
Get(members, k) ==
    members[CHOOSE i \in 1..Len(members) : members[i][1] = k][2]

\* a "topic" key that an entry does not have
Missing == <<"absent">>

\* the file states
NoFile == [kind |-> "missing"]
NotJson == [kind |-> "garbage"]
JsonFile(doc) == [kind |-> "json", doc |-> doc]

\* _save_config: the document written for port and the registry tw.  A type
\* is written as one symbol; "host" has no part in the model and is left out.
subscription_json(w) ==
    JObject(<< <<"topic", JString(w.topic)>>,
               <<"type", JString(<<w.widget_type>>)>> >>)
config_json(port, tw) ==
    JObject(<< <<"port", JNumber(port)>>,
               <<"subscriptions",
                 JArray([i \in 1..Len(tw) |-> subscription_json(tw[i])])>> >>)

\* one entry of the loaded "subscriptions" list
subscription_entry(o) ==
    [topic |-> IF HasKey(o.members, "topic")
               THEN json_unescape(Get(o.members, "topic").text)
               ELSE Missing,
     type |-> IF HasKey(o.members, "type")
              THEN json_unescape(Get(o.members, "type").text)[1]
              ELSE "absent"]

\* _load_config, then self.config.get(...) of lines 166-169 and 232: whether
\* the value loaded is a dict, and its "subscriptions" ([] without the key)
_load_config(f) ==
    IF f.kind \in {"missing", "garbage"}
    THEN [dict |-> TRUE, subscriptions |-> <<>>]
    ELSE IF f.doc.t # "object"
    THEN [dict |-> FALSE, subscriptions |-> <<>>]
    ELSE [dict |-> TRUE,
          subscriptions |->
              IF HasKey(f.doc.members, "subscriptions")
              THEN LET items == Get(f.doc.members, "subscriptions").items
                   IN  [i \in 1..Len(items) |-> subscription_entry(items[i])]
              ELSE <<>>]

\* a file from which the subscriptions list c is loaded
entry_json(e) ==
    JObject((IF e.topic = Missing THEN <<>>
             ELSE << <<"topic", JString(e.topic)>> >>)
            \o (IF e.type = "absent" THEN <<>>
                ELSE << <<"type", JString(<<e.type>>)>> >>))
ConfigFile(c) ==
    IF c = <<>> THEN NoFile
    ELSE JsonFile(JObject(<< <<"subscriptions",
                               JArray([i \in 1..Len(c) |-> entry_json(c[i])])>> >>))

\* the (pattern, kind) pairs of a registry
Pairs(tw) == { <<tw[i].topic, tw[i].widget_type>> : i \in 1..Len(tw) }

(***************************************************************************)
(* Inputs.                                                                 *)
(***************************************************************************)
\* texts typed into sub_entry: "s/+/r", " s/# " and a blank one
SubEntryTexts ==
    { <<"s", "/", "+", "/", "r">>, <<" ", "s", "/", "#", " ">>, <<" ", " ">> }

\* topics of inbound messages: "s/t/r"
MsgTopics == { <<"s", "/", "t", "/", "r">> }

\* payloads of inbound messages, already decoded: "x", "7", "150"
Payloads == { <<"x">>, <<"7">>, <<"1", "5", "0">> }

\* texts typed into sub_entry before a save: "s/t" and a"\ (an a, a quote
\* and a backslash)
SavedEntryTexts == { <<"s", "/", "t">>, <<"a", Quote, Backslash>> }

\* what CONFIG_FILE can hold at the start: nothing (no file), text that is
\* no JSON, the JSON list [], the JSON object {}, an object whose one
\* subscription has no "topic", and an object with the subscription "s/#"
ConfigFiles ==
    << NoFile,
       NotJson,
       JsonFile(JArray(<<>>)),
       JsonFile(JObject(<<>>)),
       ConfigFile(<<[topic |-> Missing, type |-> "gauge"]>>),
       ConfigFile(<<[topic |-> <<"s", "/", "#">>, type |-> "absent"]>>) >>

\* texts of pub_topic: "s/t" and a blank one
PubTopicTexts == { <<"s", "/", "t">>, <<" ">> }

\* texts of port_entry: "1883" and "x"
PortTexts == { <<"1", "8", "8", "3">>, <<"x">> }

\* the "subscriptions" list of the loaded config: none (also what a missing
\* file gives), "s/t", and "s/#" twice with different types;
\* "absent" stands for an entry without a "type" key
ConfigSubscriptions ==
    { <<>>,
      <<[topic |-> <<"s", "/", "t">>, type |-> "gauge"]>>,
      <<[topic |-> <<"s", "/", "#">>, type |-> "absent"],
        [topic |-> <<"s", "/", "#">>, type |-> "sparkline"]>> }

VARIABLES
    m_pattern,      \* matcher run: the pattern argument
    m_topic,        \* matcher run: the topic argument
    m_pc,           \* matcher run: "call" before the call, "done" after it
    m_result,       \* matcher run: the returned boolean (FALSE before the call)
    HAS_MQTT,       \* whether paho.mqtt imported (lines 13-17)
    config,         \* self.config: the "subscriptions" list loaded
    restore,        \* __init__: how many of them the restore loop has done
    topic_widgets,  \* self.topic_widgets, a dict in insertion order
    log,            \* the lines of log_view's buffer
    clock,          \* the last reading of datetime.now()
    client,         \* self.client: 0 for None, else the id of an mqtt.Client
    connect_btn,    \* label of connect_btn
    conn_status,    \* label of conn_status
    idle,           \* callbacks queued by GLib.idle_add, oldest first
    hm,             \* per thread, the _handle_message call it is running
    n_msgs,         \* inbound messages delivered so far
    n_clients,      \* mqtt.Client() objects created so far
    n_drops,        \* connections dropped so far
    thr,            \* per client id, the connect() thread started with it
    sock,           \* per client, the state of its connection to the broker
    loop,           \* per client, the state of its network loop thread
    oc,             \* per client, the _on_connect call its loop thread runs
    subs,           \* per client, the patterns subscribed on its connection
    pub,            \* the last call of Client.publish made by _publish
    delivered,      \* the inbound messages the transport has delivered, in order
    file,           \* what CONFIG_FILE holds on disk
    ctor,           \* where __init__ is: "load", "restore", "done", "raised"
    saved           \* the registry as it was at the last _save_config that wrote

mvars == <<m_pattern, m_topic, m_pc, m_result>>
uivars == <<restore, topic_widgets, log, clock, client, connect_btn,
            conn_status, idle, hm, n_msgs>>
netvars == <<n_clients, n_drops, thr, sock, loop, oc, subs>>
obsvars == <<pub, delivered>>
cfgvars == <<file, ctor, saved>>

vars == <<m_pattern, m_topic, m_pc, m_result, HAS_MQTT, config, restore,
          topic_widgets, log, clock, client, connect_btn, conn_status, idle,
          hm, n_msgs, n_clients, n_drops, thr, sock, loop, oc, subs, pub,
          delivered, file, ctor, saved>>

Clients == 1..MaxClients
None == 0

\* the threads that can run _handle_message: the GLib main loop ("ui") is
\* the one the code runs it on
Threads == {"ui", "net"}

NoCall == [pc |-> "idle", i |-> 0, topic |-> <<>>, payload |-> <<>>,
           before |-> <<>>]
NoOnConnect == [pc |-> "idle", it |-> 0, size |-> 0, reg0 |-> {},
                called |-> {}]
NoPublish == [h |-> None, sock |-> "none"]
NoSave == [done |-> FALSE, pairs |-> {}]

(***************************************************************************)
(* The matcher alone.                                                      *)
(***************************************************************************)
MatcherIdle ==
    /\ m_pattern = <<>>
    /\ m_topic = <<>>
    /\ m_pc = "idle"
    /\ m_result = FALSE

\* the window as __init__ leaves it before the subscriptions are restored
NewWindow ==
    /\ topic_widgets = <<>>
    /\ log = <<>>
    /\ clock = 0
    /\ client = None
    /\ connect_btn = "Connect"
    /\ conn_status = "Disconnected"
    /\ idle = <<>>
    /\ hm = [t \in Threads |-> NoCall]
    /\ n_msgs = 0
    /\ n_clients = 0
    /\ n_drops = 0
    /\ thr = [h \in Clients |-> "none"]
    /\ sock = [h \in Clients |-> "none"]
    /\ loop = [h \in Clients |-> "none"]
    /\ oc = [h \in Clients |-> NoOnConnect]
    /\ subs = [h \in Clients |-> {}]
    /\ pub = NoPublish
    /\ delivered = <<>>

InitMatcher ==
    /\ m_pattern \in MatcherInputs
    /\ m_topic \in MatcherInputs
    /\ m_pc = "call"
    /\ m_result = FALSE
    /\ HAS_MQTT = TRUE
    /\ config = <<>>
    /\ restore = 0
    /\ NewWindow
    /\ file = NoFile
    /\ ctor = "done"
    /\ saved = NoSave

CallTopicMatches ==
    /\ m_pc = "call"
    /\ m_pc' = "done"
    /\ m_result' = _topic_matches(m_pattern, m_topic)
    /\ UNCHANGED <<m_pattern, m_topic, HAS_MQTT, config>>
    /\ UNCHANGED uivars
    /\ UNCHANGED netvars
    /\ UNCHANGED obsvars
    /\ UNCHANGED cfgvars

NextMatcher == CallTopicMatches

SpecMatcher == InitMatcher /\ [][NextMatcher]_vars

(***************************************************************************)
(* The window: construction and the handlers run by the GLib main loop.    *)
(***************************************************************************)
Init ==
    /\ MatcherIdle
    /\ HAS_MQTT \in BOOLEAN
    /\ config \in ConfigSubscriptions
    /\ restore = 0
    /\ NewWindow
    /\ file = ConfigFile(config)
    /\ ctor = IF config = <<>> THEN "done" ELSE "restore"
    /\ saved = NoSave

\* __init__ has returned: the main loop can run handlers
Constructed == ctor = "done"

\* the main loop runs one handler at a time, to its end
UiFree == hm["ui"].pc = "idle"

\* datetime.now(): the clock never runs backwards
Readings == clock..Min(clock + 1, MaxClock)

Label(text) == [fn |-> "set_label", label |-> text, topic |-> <<>>,
                payload |-> <<>>]
Message(topic, payload) == [fn |-> "_handle_message", label |-> "",
                            topic |-> topic, payload |-> payload]

\* sub.get("type", "text")
sub_type(e) == IF e.type = "absent" THEN "text" ELSE e.type

\* self.config = self._load_config() and the self.config.get calls that
\* follow it (lines 166, 169): a loaded value that is no dict has no get
LoadConfig ==
    /\ ctor = "load"
    /\ IF _load_config(file).dict
       THEN /\ config' = _load_config(file).subscriptions
            /\ ctor' = IF config' = <<>> THEN "done" ELSE "restore"
       ELSE /\ ctor' = "raised"
            /\ UNCHANGED config
    /\ UNCHANGED <<file, saved, HAS_MQTT>>
    /\ UNCHANGED mvars
    /\ UNCHANGED uivars
    /\ UNCHANGED netvars
    /\ UNCHANGED obsvars

\* one turn of the "Restore subscriptions" loop of __init__: sub["topic"]
\* raises KeyError for an entry without that key; __init__ is done after
\* the last turn
RestoreSubscription ==
    /\ ctor = "restore"
    /\ restore < Len(config)
    /\ IF config[restore + 1].topic = Missing
       THEN /\ ctor' = "raised"
            /\ UNCHANGED <<topic_widgets, restore>>
       ELSE /\ topic_widgets' = _add_topic_widget(topic_widgets,
                                                  config[restore + 1].topic,
                                                  sub_type(config[restore + 1]))
            /\ restore' = restore + 1
            /\ ctor' = IF restore' = Len(config) THEN "done" ELSE "restore"
    /\ UNCHANGED <<log, clock, client, connect_btn, conn_status, idle, hm,
                   n_msgs, HAS_MQTT, config>>
    /\ UNCHANGED mvars
    /\ UNCHANGED obsvars
    /\ UNCHANGED <<file, saved>>
    /\ UNCHANGED netvars

\* paho's Client.subscribe on client h: sent on h's connection if it has one
client_subscribe(sb, h, topic) ==
    IF sock[h] \in {"connecting", "open"} THEN [sb EXCEPT ![h] = @ \cup {topic}]
    ELSE sb

\* _subscribe_topic with text in sub_entry and entry sel of type_combo chosen
_subscribe_topic(text, sel) ==
    /\ Constructed
    /\ UiFree
    /\ LET topic == strip(text)
       IN  IF topic = <<>>
           THEN UNCHANGED <<topic_widgets, subs>>
           ELSE /\ topic_widgets' =
                       _add_topic_widget(topic_widgets, topic, types[sel + 1])
                /\ subs' = IF client # None
                           THEN client_subscribe(subs, client, topic)
                           ELSE subs
    /\ UNCHANGED <<restore, log, clock, client, connect_btn, conn_status,
                   idle, hm, n_msgs, HAS_MQTT, config>>
    /\ UNCHANGED mvars
    /\ UNCHANGED obsvars
    /\ UNCHANGED cfgvars
    /\ UNCHANGED <<n_clients, n_drops, thr, sock, loop, oc>>

\* the main loop takes the oldest idle callback and calls it
IdleDispatch ==
    /\ Constructed
    /\ UiFree
    /\ idle # <<>>
    /\ idle' = Tail(idle)
    /\ IF Head(idle).fn = "set_label"
       THEN /\ conn_status' = Head(idle).label
            /\ UNCHANGED hm
       ELSE /\ hm' = [hm EXCEPT !["ui"] =
                        [pc |-> "loop", i |-> 0, topic |-> Head(idle).topic,
                         payload |-> Head(idle).payload,
                         before |-> topic_widgets]]
            /\ UNCHANGED conn_status
    /\ UNCHANGED <<restore, topic_widgets, log, clock, client, connect_btn,
                   n_msgs, HAS_MQTT, config>>
    /\ UNCHANGED mvars
    /\ UNCHANGED obsvars
    /\ UNCHANGED cfgvars
    /\ UNCHANGED netvars

\* mutant: the for loop of _handle_message stops at the first match
HandleMessageStep_first(t) ==
    /\ hm[t].pc = "loop"
    /\ IF Len(topic_widgets) # Len(hm[t].before)
       THEN /\ hm' = [hm EXCEPT ![t] = NoCall]
            /\ UNCHANGED <<topic_widgets, clock>>
       ELSE IF hm[t].i < Len(topic_widgets)
       THEN LET k == hm[t].i + 1
                w == topic_widgets[k]
            IN  IF hm[t].topic = w.topic \/ _topic_matches(w.topic, hm[t].topic)
                THEN /\ hm' = [hm EXCEPT ![t].i = k, ![t].pc = "log"]
                     /\ \E now \in Readings :
                           /\ clock' = now
                           /\ topic_widgets' =
                                [topic_widgets EXCEPT
                                    ![k] = update(w, hm[t].payload, now)]
                ELSE /\ hm' = [hm EXCEPT ![t].i = k]
                     /\ UNCHANGED <<topic_widgets, clock>>
       ELSE /\ hm' = [hm EXCEPT ![t].pc = "log"]
            /\ UNCHANGED <<topic_widgets, clock>>
    /\ UNCHANGED <<restore, log, client, connect_btn, conn_status, idle,
                   n_msgs, HAS_MQTT, config>>
    /\ UNCHANGED mvars
    /\ UNCHANGED obsvars
    /\ UNCHANGED cfgvars
    /\ UNCHANGED netvars

\* mutant: a payload that is no number, given to a matching gauge or
\* sparkline, ends the call of _handle_message
HandleMessageStep_abort(t) ==
    /\ hm[t].pc = "loop"
    /\ IF Len(topic_widgets) # Len(hm[t].before)
       THEN /\ hm' = [hm EXCEPT ![t] = NoCall]
            /\ UNCHANGED <<topic_widgets, clock>>
       ELSE IF hm[t].i < Len(topic_widgets)
       THEN LET k == hm[t].i + 1
                w == topic_widgets[k]
            IN  IF hm[t].topic = w.topic \/ _topic_matches(w.topic, hm[t].topic)
                THEN IF w.widget_type \in {"gauge", "sparkline"}
                          /\ ~float(hm[t].payload).ok
                     THEN /\ hm' = [hm EXCEPT ![t] = NoCall]
                          /\ UNCHANGED <<topic_widgets, clock>>
                     ELSE /\ hm' = [hm EXCEPT ![t].i = k]
                          /\ \E now \in Readings :
                                /\ clock' = now
                                /\ topic_widgets' =
                                     [topic_widgets EXCEPT
                                        ![k] = update(w, hm[t].payload, now)]
                ELSE /\ hm' = [hm EXCEPT ![t].i = k]
                     /\ UNCHANGED <<topic_widgets, clock>>
       ELSE /\ hm' = [hm EXCEPT ![t].pc = "log"]
            /\ UNCHANGED <<topic_widgets, clock>>
    /\ UNCHANGED <<restore, log, client, connect_btn, conn_status, idle,
                   n_msgs, HAS_MQTT, config>>
    /\ UNCHANGED mvars
    /\ UNCHANGED obsvars
    /\ UNCHANGED cfgvars
    /\ UNCHANGED netvars

\* one turn of the for loop of _handle_message, run by thread t; inserting
\* into a dict while it is iterated makes the next turn raise RuntimeError,
\* which ends the call
HandleMessageStep(t) ==
    /\ hm[t].pc = "loop"
    /\ IF Len(topic_widgets) # Len(hm[t].before)
       THEN /\ hm' = [hm EXCEPT ![t] = NoCall]
            /\ UNCHANGED <<topic_widgets, clock>>
       ELSE IF hm[t].i < Len(topic_widgets)
       THEN LET k == hm[t].i + 1
                w == topic_widgets[k]
            IN  /\ hm' = [hm EXCEPT ![t].i = k]
                /\ IF hm[t].topic = w.topic \/ _topic_matches(w.topic, hm[t].topic)
                   THEN \E now \in Readings :
                           /\ clock' = now
                           /\ topic_widgets' =
                                [topic_widgets EXCEPT
                                    ![k] = update(w, hm[t].payload, now)]
                   ELSE UNCHANGED <<topic_widgets, clock>>
       ELSE /\ hm' = [hm EXCEPT ![t].pc = "log"]
            /\ UNCHANGED <<topic_widgets, clock>>
    /\ UNCHANGED <<restore, log, client, connect_btn, conn_status, idle,
                   n_msgs, HAS_MQTT, config>>
    /\ UNCHANGED mvars
    /\ UNCHANGED obsvars
    /\ UNCHANGED cfgvars
    /\ UNCHANGED netvars

\* mutant: only a message that matched a subscription is logged
HandleMessageLog_matched(t) ==
    /\ hm[t].pc = "log"
    /\ IF topic_widgets # hm[t].before
       THEN \E now \in Readings :
               /\ clock' = now
               /\ log' = Append(log, [ts |-> now, topic |-> hm[t].topic,
                                      payload |-> hm[t].payload])
       ELSE UNCHANGED <<clock, log>>
    /\ hm' = [hm EXCEPT ![t] = NoCall]
    /\ UNCHANGED <<restore, topic_widgets, client, connect_btn, conn_status,
                   idle, n_msgs, HAS_MQTT, config>>
    /\ UNCHANGED mvars
    /\ UNCHANGED obsvars
    /\ UNCHANGED cfgvars
    /\ UNCHANGED netvars

\* the end of _handle_message: the line appended to the log
HandleMessageLog(t) ==
    /\ hm[t].pc = "log"
    /\ \E now \in Readings :
          /\ clock' = now
          /\ log' = Append(log, [ts |-> now, topic |-> hm[t].topic,
                                 payload |-> hm[t].payload])
    /\ hm' = [hm EXCEPT ![t] = NoCall]
    /\ UNCHANGED <<restore, topic_widgets, client, connect_btn, conn_status,
                   idle, n_msgs, HAS_MQTT, config>>
    /\ UNCHANGED mvars
    /\ UNCHANGED obsvars
    /\ UNCHANGED cfgvars
    /\ UNCHANGED netvars

\* _toggle_connection without paho.mqtt
ToggleNoMqtt ==
    /\ Constructed
    /\ UiFree
    /\ ~HAS_MQTT
    /\ conn_status' = "paho-mqtt not installed!"
    /\ UNCHANGED <<restore, topic_widgets, log, clock, client, connect_btn,
                   idle, hm, n_msgs, HAS_MQTT, config>>
    /\ UNCHANGED mvars
    /\ UNCHANGED obsvars
    /\ UNCHANGED cfgvars
    /\ UNCHANGED netvars

\* _toggle_connection with a client.  paho's disconnect() on a client with
\* a connection hands the DISCONNECT to the loop thread, which then calls
\* on_disconnect; a client whose loop was never started sends it in the
\* calling thread, calls on_disconnect there and closes.  On a client that
\* lost its connection it stops the loop thread's reconnecting, and on a
\* client that never had one it does nothing.
ToggleDisconnect ==
    /\ Constructed
    /\ UiFree
    /\ HAS_MQTT
    /\ client # None
    /\ IF sock[client] \in {"connecting", "open"} /\ loop[client] = "none"
       THEN /\ sock' = [sock EXCEPT ![client] = "gone"]
            /\ subs' = [subs EXCEPT ![client] = {}]
            /\ idle' = Append(idle, Label("Disconnected"))
       ELSE /\ sock' = [sock EXCEPT ![client] =
                           IF @ \in {"connecting", "open"} THEN "closing"
                           ELSE IF @ = "closed" THEN "gone"
                           ELSE @]
            /\ UNCHANGED <<subs, idle>>
    /\ client' = None
    /\ connect_btn' = "Connect"
    /\ conn_status' = "Disconnected"
    /\ UNCHANGED <<restore, topic_widgets, log, clock, hm, n_msgs,
                   HAS_MQTT, config>>
    /\ UNCHANGED mvars
    /\ UNCHANGED obsvars
    /\ UNCHANGED cfgvars
    /\ UNCHANGED <<n_clients, n_drops, thr, loop, oc>>

\* _toggle_connection without a client, with text in port_entry: int() of a
\* text that is no number raises ValueError before anything is changed
ToggleConnect(text) ==
    /\ Constructed
    /\ UiFree
    /\ HAS_MQTT
    /\ client = None
    /\ n_clients < MaxClients
    /\ IF int(strip(text)).ok
       THEN /\ n_clients' = n_clients + 1
            /\ client' = n_clients + 1
            /\ thr' = [thr EXCEPT ![n_clients + 1] = "connect"]
            /\ connect_btn' = "Disconnect"
            /\ conn_status' = "Connecting..."
       ELSE UNCHANGED <<n_clients, client, thr, connect_btn, conn_status>>
    /\ UNCHANGED <<restore, topic_widgets, log, clock, idle, hm, n_msgs,
                   HAS_MQTT, config>>
    /\ UNCHANGED mvars
    /\ UNCHANGED obsvars
    /\ UNCHANGED cfgvars
    /\ UNCHANGED <<n_drops, sock, loop, oc, subs>>

\* _save_config with text in port_entry: int() of a text that is no number
\* raises ValueError before anything is assigned or written
_save_config(text) ==
    /\ Constructed
    /\ UiFree
    /\ IF int(text).ok
       THEN /\ config' = [i \in 1..Len(topic_widgets) |->
                             [topic |-> topic_widgets[i].topic,
                              type |-> topic_widgets[i].widget_type]]
            /\ file' = JsonFile(config_json(int(text).val, topic_widgets))
            /\ saved' = [done |-> TRUE, pairs |-> Pairs(topic_widgets)]
       ELSE UNCHANGED <<config, file, saved>>
    /\ UNCHANGED <<HAS_MQTT, ctor>>
    /\ UNCHANGED mvars
    /\ UNCHANGED uivars
    /\ UNCHANGED netvars
    /\ UNCHANGED obsvars

\* the application is closed and started again: a new window begins its
\* __init__; the file stays and the clock goes on
Restart ==
    /\ ctor \in {"done", "raised"}
    /\ UiFree
    /\ ctor' = "load"
    /\ config' = <<>>
    /\ restore' = 0
    /\ topic_widgets' = <<>>
    /\ log' = <<>>
    /\ client' = None
    /\ connect_btn' = "Connect"
    /\ conn_status' = "Disconnected"
    /\ idle' = <<>>
    /\ n_msgs' = 0
    /\ n_clients' = 0
    /\ n_drops' = 0
    /\ thr' = [h \in Clients |-> "none"]
    /\ sock' = [h \in Clients |-> "none"]
    /\ loop' = [h \in Clients |-> "none"]
    /\ oc' = [h \in Clients |-> NoOnConnect]
    /\ subs' = [h \in Clients |-> {}]
    /\ pub' = NoPublish
    /\ delivered' = <<>>
    /\ UNCHANGED <<HAS_MQTT, clock, hm, file, saved>>
    /\ UNCHANGED mvars

\* _publish with text in pub_topic: Client.publish is called on the client
\* the window holds, whatever the state of its connection
_publish(text) ==
    /\ Constructed
    /\ UiFree
    /\ IF client # None /\ strip(text) # <<>>
       THEN pub' = [h |-> client, sock |-> sock[client]]
       ELSE UNCHANGED pub
    /\ UNCHANGED <<HAS_MQTT, config, delivered>>
    /\ UNCHANGED mvars
    /\ UNCHANGED uivars
    /\ UNCHANGED netvars
    /\ UNCHANGED cfgvars

(***************************************************************************)
(* The thread started by _toggle_connection (the closure connect).  It     *)
(* reads self.client each time it uses it.                                 *)
(***************************************************************************)
\* self.client.connect(host, port, 60): AttributeError when self.client is
\* None, an OSError when the broker cannot be reached
\* (reached is whether the broker can be reached).  paho's connect closes
\* the connection the client has, if any, before it opens the new one.
ThreadConnect(h, reached) ==
    /\ thr[h] = "connect"
    /\ IF client # None /\ reached
       THEN /\ sock' = [sock EXCEPT ![client] = "connecting"]
            /\ subs' = [subs EXCEPT ![client] = {}]
            /\ thr' = [thr EXCEPT ![h] = "loop_start"]
            /\ UNCHANGED idle
       ELSE /\ idle' = Append(idle, Label("Error"))
            /\ thr' = [thr EXCEPT ![h] = "done"]
            /\ IF client # None /\ sock[client] \in {"connecting", "open"}
               THEN /\ sock' = [sock EXCEPT ![client] = "closed"]
                    /\ subs' = [subs EXCEPT ![client] = {}]
               ELSE UNCHANGED <<sock, subs>>
    /\ UNCHANGED <<restore, topic_widgets, log, clock, client, connect_btn,
                   conn_status, hm, n_msgs, HAS_MQTT, config>>
    /\ UNCHANGED mvars
    /\ UNCHANGED obsvars
    /\ UNCHANGED cfgvars
    /\ UNCHANGED <<n_clients, n_drops, loop, oc>>

\* self.client.loop_start(): starts the client's loop thread unless it has one
ThreadLoopStart(h) ==
    /\ thr[h] = "loop_start"
    /\ thr' = [thr EXCEPT ![h] = "done"]
    /\ IF client = None
       THEN /\ idle' = Append(idle, Label("Error"))
            /\ UNCHANGED loop
       ELSE /\ loop' = [loop EXCEPT ![client] = IF @ = "none" THEN "idle" ELSE @]
            /\ UNCHANGED idle
    /\ UNCHANGED <<restore, topic_widgets, log, clock, client, connect_btn,
                   conn_status, hm, n_msgs, HAS_MQTT, config>>
    /\ UNCHANGED mvars
    /\ UNCHANGED obsvars
    /\ UNCHANGED cfgvars
    /\ UNCHANGED <<n_clients, n_drops, sock, oc, subs>>

(***************************************************************************)
(* The callbacks, called by the loop thread of client h.                   *)
(***************************************************************************)
\* CONNACK: _on_connect queues the status label, then starts to iterate
\* self.topic_widgets
OnConnectBegin(h) ==
    /\ loop[h] = "idle"
    /\ sock[h] = "connecting"
    /\ sock' = [sock EXCEPT ![h] = "open"]
    /\ loop' = [loop EXCEPT ![h] = "on_connect"]
    /\ idle' = Append(idle, Label("Connected"))
    /\ oc' = [oc EXCEPT ![h] = [pc |-> "iter", it |-> 0,
                                size |-> Len(topic_widgets),
                                reg0 |-> KeySet(topic_widgets),
                                called |-> {}]]
    /\ UNCHANGED <<restore, topic_widgets, log, clock, client, connect_btn,
                   conn_status, hm, n_msgs, HAS_MQTT, config>>
    /\ UNCHANGED mvars
    /\ UNCHANGED obsvars
    /\ UNCHANGED cfgvars
    /\ UNCHANGED <<n_clients, n_drops, thr, subs>>

\* one turn of the for loop of _on_connect: the dict iterator raises
\* RuntimeError when the dict has changed size since the loop began
OnConnectStep(h) ==
    /\ loop[h] = "on_connect"
    /\ oc[h].pc = "iter"
    /\ IF Len(topic_widgets) # oc[h].size
       THEN /\ oc' = [oc EXCEPT ![h].pc = "raised"]
            /\ UNCHANGED subs
       ELSE IF oc[h].it < oc[h].size
       THEN LET topic == topic_widgets[oc[h].it + 1].topic
            IN  /\ subs' = client_subscribe(subs, h, topic)
                /\ oc' = [oc EXCEPT ![h].it = @ + 1,
                                    ![h].called = @ \cup {topic}]
       ELSE /\ oc' = [oc EXCEPT ![h].pc = "returned"]
            /\ UNCHANGED subs
    /\ UNCHANGED <<restore, topic_widgets, log, clock, client, connect_btn,
                   conn_status, idle, hm, n_msgs, HAS_MQTT, config>>
    /\ UNCHANGED mvars
    /\ UNCHANGED obsvars
    /\ UNCHANGED cfgvars
    /\ UNCHANGED <<n_clients, n_drops, thr, sock, loop>>

\* _on_connect is over; after an exception the loop thread either goes on
\* (the exception is logged) or ends (it is raised again)
OnConnectEnd(h) ==
    /\ loop[h] = "on_connect"
    /\ oc[h].pc \in {"returned", "raised"}
    /\ oc' = [oc EXCEPT ![h] = NoOnConnect]
    /\ \E next \in (IF oc[h].pc = "raised" THEN {"idle", "dead"} ELSE {"idle"}) :
          loop' = [loop EXCEPT ![h] = next]
    /\ UNCHANGED <<restore, topic_widgets, log, clock, client, connect_btn,
                   conn_status, idle, hm, n_msgs, HAS_MQTT, config>>
    /\ UNCHANGED mvars
    /\ UNCHANGED obsvars
    /\ UNCHANGED cfgvars
    /\ UNCHANGED <<n_clients, n_drops, thr, sock, subs>>

\* mutant: _handle_message is called on the loop thread instead of being
\* queued for the main loop
_on_message_direct(h, topic, payload) ==
    /\ loop[h] = "idle"
    /\ sock[h] = "open"
    /\ n_msgs < MaxMsgs
    /\ n_msgs' = n_msgs + 1
    /\ hm["net"].pc = "idle"
    /\ hm' = [hm EXCEPT !["net"] =
                 [pc |-> "loop", i |-> 0, topic |-> topic,
                  payload |-> payload, before |-> topic_widgets]]
    /\ delivered' = Append(delivered, [topic |-> topic, payload |-> payload])
    /\ UNCHANGED <<restore, topic_widgets, log, clock, client, connect_btn,
                   conn_status, idle, HAS_MQTT, config, pub>>
    /\ UNCHANGED mvars
    /\ UNCHANGED cfgvars
    /\ UNCHANGED netvars

\* _on_message with a payload that decodes: _handle_message is queued
_on_message(h, topic, payload) ==
    /\ loop[h] = "idle"
    /\ sock[h] = "open"
    /\ n_msgs < MaxMsgs
    /\ n_msgs' = n_msgs + 1
    /\ idle' = Append(idle, Message(topic, payload))
    /\ delivered' = Append(delivered, [topic |-> topic, payload |-> payload])
    /\ UNCHANGED <<restore, topic_widgets, log, clock, client, connect_btn,
                   conn_status, hm, HAS_MQTT, config, pub>>
    /\ UNCHANGED mvars
    /\ UNCHANGED cfgvars
    /\ UNCHANGED netvars

\* the connection is lost: _on_disconnect queues the status label
OnDisconnectDrop(h) ==
    /\ loop[h] = "idle"
    /\ sock[h] = "open"
    /\ n_drops < MaxDrops
    /\ n_drops' = n_drops + 1
    /\ sock' = [sock EXCEPT ![h] = "closed"]
    /\ subs' = [subs EXCEPT ![h] = {}]
    /\ idle' = Append(idle, Label("Disconnected"))
    /\ UNCHANGED <<restore, topic_widgets, log, clock, client, connect_btn,
                   conn_status, hm, n_msgs, HAS_MQTT, config>>
    /\ UNCHANGED mvars
    /\ UNCHANGED obsvars
    /\ UNCHANGED cfgvars
    /\ UNCHANGED <<n_clients, thr, loop, oc>>

\* the loop thread connects again after a lost connection
Reconnect(h) ==
    /\ loop[h] = "idle"
    /\ sock[h] = "closed"
    /\ sock' = [sock EXCEPT ![h] = "connecting"]
    /\ UNCHANGED <<restore, topic_widgets, log, clock, client, connect_btn,
                   conn_status, idle, hm, n_msgs, HAS_MQTT, config>>
    /\ UNCHANGED mvars
    /\ UNCHANGED obsvars
    /\ UNCHANGED cfgvars
    /\ UNCHANGED <<n_clients, n_drops, thr, loop, oc, subs>>

\* disconnect() was called: _on_disconnect queues the status label and the
\* loop thread ends
OnDisconnectUser(h) ==
    /\ loop[h] = "idle"
    /\ sock[h] = "closing"
    /\ sock' = [sock EXCEPT ![h] = "gone"]
    /\ loop' = [loop EXCEPT ![h] = "ended"]
    /\ subs' = [subs EXCEPT ![h] = {}]
    /\ idle' = Append(idle, Label("Disconnected"))
    /\ UNCHANGED <<restore, topic_widgets, log, clock, client, connect_btn,
                   conn_status, hm, n_msgs, HAS_MQTT, config>>
    /\ UNCHANGED mvars
    /\ UNCHANGED obsvars
    /\ UNCHANGED cfgvars
    /\ UNCHANGED <<n_clients, n_drops, thr, oc>>

Next ==
    \/ LoadConfig
    \/ RestoreSubscription
    \/ Restart
    \/ \E text \in SubEntryTexts, sel \in 0..2 : _subscribe_topic(text, sel)
    \/ IdleDispatch
    \/ \E t \in Threads : HandleMessageStep(t)
    \/ \E t \in Threads : HandleMessageLog(t)
    \/ ToggleNoMqtt
    \/ ToggleDisconnect
    \/ \E text \in PortTexts : ToggleConnect(text)
    \/ \E text \in PubTopicTexts : _publish(text)
    \/ \E text \in PortTexts : _save_config(text)
    \/ \E h \in Clients, reached \in BOOLEAN : ThreadConnect(h, reached)
    \/ \E h \in Clients : ThreadLoopStart(h)
    \/ \E h \in Clients : OnConnectBegin(h)
    \/ \E h \in Clients : OnConnectStep(h)
    \/ \E h \in Clients : OnConnectEnd(h)
    \/ \E h \in Clients, topic \in MsgTopics, payload \in Payloads :
          _on_message(h, topic, payload)
    \/ \E h \in Clients : OnDisconnectDrop(h)
    \/ \E h \in Clients : Reconnect(h)
    \/ \E h \in Clients : OnDisconnectUser(h)

Spec == Init /\ [][Next]_vars

(***************************************************************************)
(* Routing: the window is constructed, the user connects once and stays    *)
(* connected, subscribes, and messages arrive.                             *)
(***************************************************************************)
InitRoute ==
    /\ Init
    /\ HAS_MQTT

NextRoute ==
    \/ RestoreSubscription
    \/ \E text \in SubEntryTexts, sel \in 0..2 : _subscribe_topic(text, sel)
    \/ IdleDispatch
    \/ \E t \in Threads : HandleMessageStep(t)
    \/ \E t \in Threads : HandleMessageLog(t)
    \/ \E text \in PortTexts : ToggleConnect(text)
    \/ \E h \in Clients : ThreadConnect(h, TRUE)
    \/ \E h \in Clients : ThreadLoopStart(h)
    \/ \E h \in Clients : OnConnectBegin(h)
    \/ \E h \in Clients : OnConnectStep(h)
    \/ \E h \in Clients : OnConnectEnd(h)
    \/ \E h \in Clients, topic \in MsgTopics, payload \in Payloads :
          _on_message(h, topic, payload)

SpecRoute == InitRoute /\ [][NextRoute]_vars

(***************************************************************************)
(* One TopicWidget and the update calls made on it.                        *)
(***************************************************************************)
\* update calls made on the widget: enough to overflow its deque with one
\* payload among them that is no number
MaxUpdates == max_points + 2

\* payloads given to the widget w: "x", and the text of a number that
\* differs from every number given before (the count of those, plus one)
WidgetPayloads(w) == { <<"x">>, Numeral(Len(w.fed) + 1) }

\* the window after one _subscribe_topic of "s/#", of any kind
InitWidget ==
    /\ MatcherIdle
    /\ HAS_MQTT = TRUE
    /\ config = <<>>
    /\ restore = 0
    /\ \E k \in 1..3 :
          topic_widgets = <<TopicWidget(<<"s", "/", "#">>, types[k])>>
    /\ log = <<>>
    /\ clock = 0
    /\ client = None
    /\ connect_btn = "Connect"
    /\ conn_status = "Disconnected"
    /\ idle = <<>>
    /\ hm = [t \in Threads |-> NoCall]
    /\ n_msgs = 0
    /\ n_clients = 0
    /\ n_drops = 0
    /\ thr = [h \in Clients |-> "none"]
    /\ sock = [h \in Clients |-> "none"]
    /\ loop = [h \in Clients |-> "none"]
    /\ oc = [h \in Clients |-> NoOnConnect]
    /\ subs = [h \in Clients |-> {}]
    /\ pub = NoPublish
    /\ delivered = <<>>
    /\ file = NoFile
    /\ ctor = "done"
    /\ saved = NoSave

\* widget.update(payload), line 288, on the first widget
UpdateCall(payload) ==
    /\ topic_widgets # <<>>
    /\ topic_widgets[1].updates < MaxUpdates
    /\ topic_widgets' =
          [topic_widgets EXCEPT ![1] = update(@, payload, clock)]
    /\ UNCHANGED <<restore, log, clock, client, connect_btn, conn_status,
                   idle, hm, n_msgs, HAS_MQTT, config>>
    /\ UNCHANGED mvars
    /\ UNCHANGED obsvars
    /\ UNCHANGED cfgvars
    /\ UNCHANGED netvars

NextWidget ==
    \E payload \in WidgetPayloads(topic_widgets[1]) : UpdateCall(payload)

SpecWidget == InitWidget /\ [][NextWidget]_vars

(***************************************************************************)
(* One gauge and the payloads given to it.                                 *)
(***************************************************************************)
\* "x", "7", "-5", "150", " 42", "0", "100", "101"
GaugePayloads ==
    { <<"x">>, <<"7">>, <<"-", "5">>, <<"1", "5", "0">>, <<" ", "4", "2">>,
      <<"0">>, <<"1", "0", "0">>, <<"1", "0", "1">> }

InitGauge ==
    /\ InitWidget
    /\ topic_widgets[1].widget_type = "gauge"

GaugeUpdateCall(payload) ==
    /\ topic_widgets[1].updates < MaxGaugeUpdates
    /\ UpdateCall(payload)

NextGauge == \E payload \in GaugePayloads : GaugeUpdateCall(payload)

SpecGauge == InitGauge /\ [][NextGauge]_vars

(***************************************************************************)
(* The connection session: the user connects and disconnects, brokers are  *)
(* reached or not, connections drop and come back, and the user subscribes *)
(* meanwhile.  No message arrives.                                         *)
(***************************************************************************)
InitSession ==
    /\ Init
    /\ HAS_MQTT
    /\ Len(config) <= 1

NextSession ==
    \/ RestoreSubscription
    \/ \E text \in SubEntryTexts : _subscribe_topic(text, 0)
    \/ IdleDispatch
    \/ ToggleDisconnect
    \/ \E text \in PortTexts : ToggleConnect(text)
    \/ \E h \in Clients, reached \in BOOLEAN : ThreadConnect(h, reached)
    \/ \E h \in Clients : ThreadLoopStart(h)
    \/ \E h \in Clients : OnConnectBegin(h)
    \/ \E h \in Clients : OnConnectStep(h)
    \/ \E h \in Clients : OnConnectEnd(h)
    \/ \E h \in Clients : OnDisconnectDrop(h)
    \/ \E h \in Clients : Reconnect(h)
    \/ \E h \in Clients : OnDisconnectUser(h)

SpecSession == InitSession /\ [][NextSession]_vars

(***************************************************************************)
(* Publishing: the session with an empty registry, and the user publishes. *)
(***************************************************************************)
InitPublish ==
    /\ Init
    /\ HAS_MQTT
    /\ config = <<>>

NextPublish ==
    \/ IdleDispatch
    \/ ToggleDisconnect
    \/ \E text \in PortTexts : ToggleConnect(text)
    \/ \E text \in PubTopicTexts : _publish(text)
    \/ \E h \in Clients, reached \in BOOLEAN : ThreadConnect(h, reached)
    \/ \E h \in Clients : ThreadLoopStart(h)
    \/ \E h \in Clients : OnConnectBegin(h)
    \/ \E h \in Clients : OnConnectStep(h)
    \/ \E h \in Clients : OnConnectEnd(h)
    \/ \E h \in Clients : OnDisconnectDrop(h)
    \/ \E h \in Clients : Reconnect(h)
    \/ \E h \in Clients : OnDisconnectUser(h)

SpecPublish == InitPublish /\ [][NextPublish]_vars

(***************************************************************************)
(* The config file: the application starts with some file, the user        *)
(* subscribes and saves, and the application is started again.             *)
(***************************************************************************)
InitConfig ==
    /\ MatcherIdle
    /\ HAS_MQTT = TRUE
    /\ config = <<>>
    /\ restore = 0
    /\ NewWindow
    /\ \E k \in 1..Len(ConfigFiles) : file = ConfigFiles[k]
    /\ ctor = "load"
    /\ saved = NoSave

NextConfig ==
    \/ LoadConfig
    \/ RestoreSubscription
    \/ \E text \in SavedEntryTexts, sel \in 0..2 : _subscribe_topic(text, sel)
    \/ \E text \in PortTexts : _save_config(text)
    \/ Restart

SpecConfig == InitConfig /\ [][NextConfig]_vars

(***************************************************************************)
(* Segments of a string, counted directly from the positions of its "/"    *)
(* characters (used to state the matcher's claims independently of split). *)
(***************************************************************************)
SlashPos(s) == { i \in 1..Len(s) : s[i] = Slash }

NSegs(s) == Cardinality(SlashPos(s)) + 1

\* position of the k-th "/" of s; 0 for k = 0 and Len(s) + 1 for k = NSegs(s)
NthSlash(s, k) ==
    IF k = 0 THEN 0
    ELSE IF k > Cardinality(SlashPos(s)) THEN Len(s) + 1
    ELSE CHOOSE i \in SlashPos(s) :
             Cardinality({ j \in SlashPos(s) : j <= i }) = k

\* the k-th segment of s, 1 <= k <= NSegs(s)
Seg(s, k) == SubSeq(s, NthSlash(s, k - 1) + 1, NthSlash(s, k) - 1)

HasHashSeg(p) == \E k \in 1..NSegs(p) : Seg(p, k) = Hash

\* number of segments before the first "#" segment of p
FirstHash(p) ==
    (CHOOSE k \in 1..NSegs(p) :
         Seg(p, k) = Hash /\ \A j \in 1..(k - 1) : Seg(p, j) # Hash) - 1

\* C2: for a pattern with no "#" segment, _topic_matches(P, T) is true iff
\* P and T have the same number of "/"-separated segments and every segment
\* of P that is not "+" equals the segment of T at the same index.
C2_NoHashMatch ==
    (m_pc = "done" /\ ~HasHashSeg(m_pattern)) =>
        (m_result <=>
            /\ NSegs(m_pattern) = NSegs(m_topic)
            /\ \A k \in 1..NSegs(m_pattern) :
                   Seg(m_pattern, k) = Plus \/ Seg(m_pattern, k) = Seg(m_topic, k))

\* matches("a/+/b", "a/b/b") has returned true
C2_Witness ==
    /\ m_pc = "done"
    /\ m_pattern = <<"a", "/", "+", "/", "b">>
    /\ m_topic = <<"a", "/", "b", "/", "b">>
    /\ m_result = TRUE

\* C3: for a pattern whose first "#" segment has k segments before it,
\* _topic_matches(P, T) is true iff T has at least k segments and each of the
\* first k segments of P is "+" or equals T's segment at the same index; what
\* follows the "#" is ignored.  So "#" matches every topic, the empty one
\* included, and "a/#" matches "a".
C3_HashMatch ==
    (m_pc = "done" /\ HasHashSeg(m_pattern)) =>
        (m_result <=>
            /\ NSegs(m_topic) >= FirstHash(m_pattern)
            /\ \A k \in 1..FirstHash(m_pattern) :
                   Seg(m_pattern, k) = Plus \/ Seg(m_pattern, k) = Seg(m_topic, k))

\* matches("a/#", "a") has returned true
C3_Witness ==
    /\ m_pc = "done"
    /\ m_pattern = <<"a", "/", "#">>
    /\ m_topic = <<"a">>
    /\ m_result = TRUE

(***************************************************************************)
(* Routing and registry claims (SpecRoute).                                *)
(***************************************************************************)
AgreesUpTo(p, t, n) ==
    \A k \in 1..n : Seg(p, k) = Plus \/ Seg(p, k) = Seg(t, k)

\* pattern p matches topic t, by the segments of the two
Denotes(p, t) ==
    IF HasHashSeg(p)
    THEN NSegs(t) >= FirstHash(p) /\ AgreesUpTo(p, t, FirstHash(p))
    ELSE NSegs(p) = NSegs(t) /\ AgreesUpTo(p, t, NSegs(p))

\* C1: when the for loop of _handle_message is over, every subscription whose
\* pattern matches the message's topic has been updated exactly once (one
\* more update call than before the message, its label showing the payload)
\* and every other subscription, and the set of subscriptions, is as it was
\* before the message.
C1_RouteUpdatesMatches ==
    \A t \in Threads :
        hm[t].pc = "log" =>
            /\ Len(topic_widgets) = Len(hm[t].before)
            /\ \A k \in 1..Len(topic_widgets) :
                  IF Denotes(hm[t].before[k].topic, hm[t].topic)
                  THEN /\ topic_widgets[k].updates = hm[t].before[k].updates + 1
                       /\ topic_widgets[k].value_label = hm[t].payload
                       /\ topic_widgets[k].ts_label # <<>>
                       /\ topic_widgets[k].topic = hm[t].before[k].topic
                  ELSE topic_widgets[k] = hm[t].before[k]

\* "s/+/r", "s/#" and "s/t" are registered and a message on "s/t/r" has
\* updated the first two, once each, and not the third
C1_Witness ==
    /\ hm["ui"].pc = "log"
    /\ hm["ui"].topic = <<"s", "/", "t", "/", "r">>
    /\ Len(topic_widgets) = 3
    /\ \A k \in 1..3 :
          topic_widgets[k].updates =
              IF topic_widgets[k].topic \in
                     { <<"s", "/", "+", "/", "r">>, <<"s", "/", "#">> }
              THEN 1 ELSE 0
    /\ \E k \in 1..3 : topic_widgets[k].topic = <<"s", "/", "+", "/", "r">>
    /\ \E k \in 1..3 : topic_widgets[k].topic = <<"s", "/", "#">>

\* C4: a step of _subscribe_topic, or of the restore loop of __init__, that
\* adds a pattern already registered leaves topic_widgets as it is: the
\* number of subscriptions, every kind and every live state.
C4_AddIdempotent ==
    [][ topic_widgets' # topic_widgets =>
          /\ \A text \in SubEntryTexts, sel \in 0..2 :
                ~ (strip(text) \in KeySet(topic_widgets)
                     /\ _subscribe_topic(text, sel))
          /\ ~ (/\ restore < Len(config)
                /\ config[restore + 1].topic \in KeySet(topic_widgets)
                /\ RestoreSubscription) ]_vars

\* the config named "s/#" twice, the second time as a sparkline, the restore
\* loop is over, and "s/#" is registered once, as the text widget the first
\* entry made it
C4_Witness ==
    /\ Len(config) = 2
    /\ config[1].topic = config[2].topic
    /\ sub_type(config[2]) = "sparkline"
    /\ restore = 2
    /\ Len(topic_widgets) = 1
    /\ topic_widgets[1].topic = config[2].topic
    /\ topic_widgets[1].widget_type = "text"

\* C7: a _handle_message call runs on the GLib main loop only, and from its
\* first step to its last the set of registered patterns is the one it
\* started with: no _add_topic_widget happens in the middle of it.
C7_RouteAtomic ==
    \A t \in Threads :
        hm[t].pc # "idle" =>
            /\ t = "ui"
            /\ Keys(topic_widgets) = Keys(hm[t].before)

\* the main loop is half way through routing one message to two
\* subscriptions while the next message is already queued
C7_Witness ==
    /\ hm["ui"].pc = "loop"
    /\ hm["ui"].i = 1
    /\ Len(topic_widgets) = 2
    /\ idle # <<>>
    /\ Head(idle).fn = "_handle_message"

(***************************************************************************)
(* Live state claims.                                                      *)
(***************************************************************************)
\* a step is an update call on subscription k with a payload float() rejects
RoutesNonNumeric(k) ==
    /\ k <= Len(topic_widgets')
    /\ topic_widgets'[k].updates = topic_widgets[k].updates + 1
    /\ ~float(topic_widgets'[k].value_label).ok

\* C5 as claimed: routing a payload that is no number to a matching gauge
\* leaves the gauge's value as it was, and a gauge that was never given a
\* number has no value.
C5_NeverSetIsAbsent ==
    /\ [][ \A k \in 1..Len(topic_widgets) :
              (topic_widgets[k].widget_type = "gauge" /\ RoutesNonNumeric(k))
                  => topic_widgets'[k].gauge_value = topic_widgets[k].gauge_value
       ]_vars
    /\ [](\A k \in 1..Len(topic_widgets) :
              (topic_widgets[k].widget_type = "gauge"
                 /\ topic_widgets[k].fed = <<>>)
                  => topic_widgets[k].gauge_value \notin Int)

\* C5, amended: routing a payload that is no number to a matching gauge
\* leaves the gauge's value as it was, and a gauge that was never given a
\* number has the value 0 it was created with.
C5_GaugeKeepsValue ==
    /\ [][ \A k \in 1..Len(topic_widgets) :
              (topic_widgets[k].widget_type = "gauge" /\ RoutesNonNumeric(k))
                  => topic_widgets'[k].gauge_value = topic_widgets[k].gauge_value
       ]_vars
    /\ [](\A k \in 1..Len(topic_widgets) :
              (topic_widgets[k].widget_type = "gauge"
                 /\ topic_widgets[k].fed = <<>>)
                  => topic_widgets[k].gauge_value = 0)

\* "x" was routed to two gauges: one had shown 7 and still shows 7, the
\* other was never given a number and has the value 0
C5_Witness ==
    /\ \E k \in 1..Len(topic_widgets) :
          /\ topic_widgets[k].widget_type = "gauge"
          /\ topic_widgets[k].updates = 2
          /\ topic_widgets[k].fed = <<7>>
          /\ topic_widgets[k].value_label = <<"x">>
          /\ topic_widgets[k].gauge_value = 7
    /\ \E k \in 1..Len(topic_widgets) :
          /\ topic_widgets[k].widget_type = "gauge"
          /\ topic_widgets[k].updates = 1
          /\ topic_widgets[k].fed = <<>>
          /\ topic_widgets[k].value_label = <<"x">>
          /\ topic_widgets[k].gauge_value = 0

\* C6: a sparkline's deque holds the latest min(n, max_points) of the n
\* numbers routed to it, in the order they came: never more than max_points,
\* and payloads that are no numbers add nothing.
C6_SparklineHistory ==
    \A k \in 1..Len(topic_widgets) :
        topic_widgets[k].widget_type = "sparkline" =>
            LET w == topic_widgets[k]
                n == Len(w.fed)
            IN  /\ Len(w.spark_values) = Min(n, max_points)
                /\ w.spark_values = SubSeq(w.fed, n - Min(n, max_points) + 1, n)

\* max_points + 1 numbers, all different, and one payload that is no number
\* were routed: the first number has left the deque and the last is its end
C6_Witness ==
    \E k \in 1..Len(topic_widgets) :
        LET w == topic_widgets[k]
        IN  /\ w.widget_type = "sparkline"
            /\ Len(w.fed) = max_points + 1
            /\ w.updates = max_points + 2
            /\ Len(w.spark_values) = max_points
            /\ \A i \in 1..Len(w.spark_values) : w.spark_values[i] # w.fed[1]
            /\ w.spark_values[max_points] = w.fed[max_points + 1]

(***************************************************************************)
(* Session claims.                                                         *)
(***************************************************************************)
\* C8: while a call of _on_connect iterates the registry, the registry holds
\* the patterns it held when the call began: no user-driven add falls
\* between two turns of the iteration.
C8_OnConnectNotInterleaved ==
    \A h \in Clients :
        oc[h].pc = "iter" => KeySet(topic_widgets) = oc[h].reg0

\* C9: when a call of _on_connect is over, subscribe was called for every
\* pattern that was in the registry when the call began.
C9_ResubscribesAll ==
    \A h \in Clients :
        oc[h].pc \in {"returned", "raised"} => oc[h].reg0 \subseteq oc[h].called

\* C10: the status of the session moves only from Disconnected to
\* Connecting, from Connecting to Connected or (on failure) back to
\* Disconnected, and from Connected to Disconnected.
C10_SessionTransitions ==
    [][ conn_status' # conn_status =>
           <<conn_status, conn_status'>> \in
               { <<"Disconnected", "Connecting...">>,
                 <<"Connecting...", "Connected">>,
                 <<"Connecting...", "Disconnected">>,
                 <<"Connected", "Disconnected">> } ]_vars

\* C11: every publish call given to the transport was made while the
\* client's connection was established (the session was Connected).
C11_PublishOnlyConnected ==
    pub.h # None => pub.sock = "open"

(***************************************************************************)
(* Config claims.                                                          *)
(***************************************************************************)
\* C12: __init__ never ends by raising: whatever the file holds, the load
\* and the restore loop complete.
C12_LoadNeverRaises ==
    ctor # "raised"

\* C13: when a window has been constructed from a file that _save_config
\* wrote, its registry holds exactly the (pattern, kind) pairs the registry
\* held at that save, each pattern once.
C13_SaveLoadRoundTrip ==
    [][ (saved.done /\ ctor # "done" /\ ctor' = "done")
           => /\ Pairs(topic_widgets') = saved.pairs
              /\ Len(topic_widgets') = Cardinality(saved.pairs) ]_vars

\* a window restored two subscriptions from a saved file (the files of the
\* start hold one at most), one of them the sparkline a"\
C13_Witness ==
    /\ saved.done
    /\ ctor = "done"
    /\ restore = 2
    /\ Pairs(topic_widgets) = saved.pairs
    /\ <<<<"a", Quote, Backslash>>, "sparkline">> \in Pairs(topic_widgets)

(***************************************************************************)
(* Parse errors and the log.                                               *)
(***************************************************************************)
\* a step is the turn of _handle_message, run by thread t, that calls update
\* on subscription k, a gauge or a sparkline, with a payload float() rejects
ParseErrorAt(t, k) ==
    /\ hm[t].pc = "loop"
    /\ hm'[t].pc = "loop"
    /\ hm[t].i = k - 1
    /\ hm'[t].i = k
    /\ topic_widgets[k].widget_type \in {"gauge", "sparkline"}
    /\ topic_widgets'[k].updates = topic_widgets[k].updates + 1
    /\ ~float(hm[t].payload).ok

\* a step ends a call of _handle_message
CallEnds(t) == hm[t].pc # "idle" /\ hm'[t].pc = "idle"

\* C14 as claimed: a parse error leaves the label, the time stamp, the
\* history and the gauge value of the subscription as they were.
C14_ParseErrorTouchesNothing ==
    [][ \A t \in Threads, k \in 1..Len(topic_widgets) :
           ParseErrorAt(t, k) =>
               /\ topic_widgets'[k].value_label = topic_widgets[k].value_label
               /\ topic_widgets'[k].ts_label = topic_widgets[k].ts_label
               /\ topic_widgets'[k].spark_values = topic_widgets[k].spark_values
               /\ topic_widgets'[k].gauge_value = topic_widgets[k].gauge_value
      ]_vars

\* C14, amended: a parse error leaves the history and the gauge value of the
\* subscription as they were, while its label shows the payload and its time
\* stamp the time of the message; the call then ends by appending the
\* message to the log.
C14_ParseErrorKeepsValues ==
    [][ /\ \A t \in Threads, k \in 1..Len(topic_widgets) :
              ParseErrorAt(t, k) =>
                  /\ topic_widgets'[k].spark_values = topic_widgets[k].spark_values
                  /\ topic_widgets'[k].gauge_value = topic_widgets[k].gauge_value
                  /\ topic_widgets'[k].value_label = hm[t].payload
                  /\ topic_widgets'[k].ts_label = <<clock'>>
        /\ \A t \in Threads :
              (CallEnds(t) /\ ~float(hm[t].payload).ok) =>
                  /\ Len(log') = Len(log) + 1
                  /\ log'[Len(log')].topic = hm[t].topic
                  /\ log'[Len(log')].payload = hm[t].payload
      ]_vars

\* a sparkline that held 7 was given "x": it still holds 7 alone, shows "x",
\* and "x" is the last line of the log
C14_Witness ==
    /\ \E k \in 1..Len(topic_widgets) :
          /\ topic_widgets[k].widget_type = "sparkline"
          /\ topic_widgets[k].updates = 2
          /\ topic_widgets[k].spark_values = <<7>>
          /\ topic_widgets[k].value_label = <<"x">>
    /\ Len(log) = 2
    /\ log[2].payload = <<"x">>
    /\ hm["ui"].pc = "idle"

\* C15: when a call of _handle_message with a payload that is no number
\* ends, every subscription whose pattern matches the topic, whatever its
\* kind, has had its update call and the message is in the log.
C15_ParseErrorStopsNothing ==
    [][ \A t \in Threads :
           (CallEnds(t) /\ ~float(hm[t].payload).ok) =>
               /\ \A k \in 1..Len(hm[t].before) :
                     Denotes(hm[t].before[k].topic, hm[t].topic) =>
                         /\ k <= Len(topic_widgets')
                         /\ topic_widgets'[k].updates =
                                hm[t].before[k].updates + 1
               /\ log' # log
      ]_vars

\* "x" went to a gauge and then to a text subscription registered after it:
\* the gauge has no number, both show "x", and the message is logged
C15_Witness ==
    /\ Len(topic_widgets) >= 2
    /\ topic_widgets[1].widget_type = "gauge"
    /\ topic_widgets[1].updates = 1
    /\ topic_widgets[1].fed = <<>>
    /\ topic_widgets[2].widget_type = "text"
    /\ topic_widgets[2].updates = 1
    /\ topic_widgets[2].value_label = <<"x">>
    /\ Len(log) = 1
    /\ log[1].payload = <<"x">>

IsMessage(e) == e.fn = "_handle_message"
TopicPayload(e) == [topic |-> e.topic, payload |-> e.payload]
TopicPayloads(q) == [i \in 1..Len(q) |-> TopicPayload(q[i])]

\* C16: the messages in the log, then the message _handle_message is
\* running with, then the messages queued for it, are the messages the
\* transport delivered, in the order of delivery: none is lost, none is
\* logged twice, and when nothing is pending the log lists them all in order.
C16_LogIsDelivered ==
    TopicPayloads(log)
      \o (IF hm["ui"].pc # "idle" THEN <<TopicPayload(hm["ui"])>> ELSE <<>>)
      \o TopicPayloads(SelectSeq(idle, IsMessage))
    = delivered

\* two messages are logged in the order delivered; the first matched no
\* subscription, the second matched two
C16_Witness ==
    /\ Len(delivered) = 2
    /\ delivered[1].payload = <<"x">>
    /\ delivered[2].payload = <<"7">>
    /\ TopicPayloads(log) = delivered
    /\ Len(topic_widgets) = 2
    /\ \A k \in 1..2 : /\ topic_widgets[k].updates = 1
                       /\ topic_widgets[k].value_label = <<"7">>

\* C17: the value of every gauge is within 0..100; once a number was given
\* to it, it is 0 if the latest number is below 0, 100 if it is above 100,
\* and that number otherwise.
C17_GaugeClamped ==
    \A k \in 1..Len(topic_widgets) :
        topic_widgets[k].widget_type = "gauge" =>
            LET w == topic_widgets[k]
            IN  /\ w.gauge_value \in 0..100
                /\ w.fed # <<>> =>
                      LET v == w.fed[Len(w.fed)]
                      IN  w.gauge_value = IF v < 0 THEN 0
                                          ELSE IF v > 100 THEN 100
                                          ELSE v

\* a gauge was given 42, then 150, then -5, and holds 0
C17_Witness ==
    \E k \in 1..Len(topic_widgets) :
        /\ topic_widgets[k].widget_type = "gauge"
        /\ topic_widgets[k].fed = <<42, 150, 0 - 5>>
        /\ topic_widgets[k].gauge_value = 0

(***************************************************************************)
(* Session claims: handles and status.                                     *)
(***************************************************************************)
\* nothing is pending: no queued callback, no handler, connect thread or
\* callback in progress, and no loop thread with an event to deliver
Quiescent ==
    /\ idle = <<>>
    /\ UiFree
    /\ \A h \in Clients :
          /\ thr[h] \in {"none", "done"}
          /\ loop[h] # "on_connect"
          /\ ~(loop[h] = "idle" /\ sock[h] \in {"connecting", "closing", "closed"})

\* C18: when the session is Connected and nothing is pending, every pattern
\* of the registry is subscribed on the connection of the window's client.
C18_AllSubscribedOnceConnected ==
    (Quiescent /\ client # None /\ sock[client] = "open")
        => KeySet(topic_widgets) \subseteq subs[client]

\* C19: a connect thread connects, and starts the loop of, the client made
\* by the click that started the thread and no other; and a client that has
\* a connection is the client the window holds.
C19_AttemptOwnsHandle ==
    /\ [][ \A h \in Clients :
              /\ (thr[h] = "connect" /\ thr'[h] = "loop_start")
                    => \A g \in Clients \ {h} : sock'[g] = sock[g]
              /\ (thr[h] = "loop_start" /\ thr'[h] = "done")
                    => \A g \in Clients \ {h} : loop'[g] = loop[g]
       ]_vars
    /\ [](\A h \in Clients : sock[h] \in {"connecting", "open"} => client = h)

\* C20: when nothing is pending, the status label reads "Connected" exactly
\* when the window holds a client and that client's connection is open.
C20_StatusIsOwnedHandle ==
    Quiescent =>
        (conn_status = "Connected" <=> (client # None /\ sock[client] = "open"))

=============================================================================
